---- MODULE Spec2Model ----
(***************************************************************************)
(* MT5 bridge server (src/server.py): the in-memory store trading_data and *)
(* the four request handlers that read and write it.                       *)
(*                                                                         *)
(* The handlers are coroutines on one event loop.  The only suspension     *)
(* point of a handler is `await request.json()`, which comes before any    *)
(* access to trading_data, so everything a handler does to the store is    *)
(* one atomic step.  POST /api/mt5 and GET /api/commands requests are kept *)
(* in flight between their arrival and the step of their handler, and are  *)
(* handled in any order; the other two handlers are taken at the step they *)
(* run.                                                                    *)
(***************************************************************************)
EXTENDS Integers, Sequences, FiniteSets, TLC

(* ------------------------------ bounds -------------------------------- *)
\* commands already queued in the initial state of the eviction runs
PreFill == 49
\* events (clock ticks and requests) admitted in a run of each specification
StoreEvents == 4
QueueEvents == 5
EvictEvents == 3
FullEvents == 3
OrderEvents == 4

(* ------------------------- program constants -------------------------- *)
\* server.py:148  `if len(trading_data["commands"]) > 50`
MAX_COMMANDS == 50
\* server.py:95   `(datetime.now().timestamp() - heartbeat) < 300`
ONLINE_THRESHOLD == 300

(* --------------------------- JSON and dicts --------------------------- *)
\* A JSON scalar used as an account: its type and its text.
JStr(t) == [kind |-> "str", text |-> t]
JNum(t) == [kind |-> "num", text |-> t]

\* Python str(v): the text of the value.
PyStr(v) == v.text

\* Python `value == s` for a str s: only a JSON string with the same text.
EqStr(v, s) == v.kind = "str" /\ v.text = s

\* datetime.now().isoformat() / str(datetime.now()) at clock reading t
IsoFormat(t) == "T" \o ToString(t)

\* {**a, **b}: the keys of both, b's value where both have the key
Spread(a, b) ==
  [k \in (DOMAIN a) \cup (DOMAIN b) |-> IF k \in DOMAIN b THEN b[k] ELSE a[k]]

EmptyDict == [k \in {} |-> 0]

(* ------------------------------ state --------------------------------- *)
VARIABLES
  accounts,    \* trading_data["accounts"]: account id -> stored record (a dict)
  heartbeats,  \* trading_data["heartbeats"]: insertion-ordered <<id, timestamp>> items
  trades,      \* trading_data["trades"]
  commands,    \* trading_data["commands"]: list of command dicts
  now,         \* the wall clock read by datetime.now(), in seconds
  inflight,    \* requests received and not yet handled, in arrival order
  resp,        \* the response of the handler that ran last
  reported,    \* log: body, clock reading and arrival of every accepted POST /api/mt5, in order
  submitted,   \* log: the command dict of every accepted POST /api/command, in order
  drainLog,    \* log: every GET /api/commands that reached the select-and-mark step
  budget       \* the number of events (clock ticks, requests) the run still admits

vars == <<accounts, heartbeats, trades, commands, now, inflight, resp,
          reported, submitted, drainLog, budget>>

logs == <<reported, submitted, drainLog>>

store == <<accounts, heartbeats, trades, commands>>

(* --------------------------- ordered dict ----------------------------- *)
\* keys of an insertion-ordered dict kept as a sequence of [k, v] items
Keys(d) == {d[i].k : i \in 1..Len(d)}

\* mutant: every assignment adds an item, also for a key already there
DictSet_AlwaysAppend(d, key, val) == Append(d, [k |-> key, v |-> val])

\* d[key] = val: an existing key keeps its position, a new key goes last
DictSet(d, key, val) ==
  IF key \in Keys(d)
    THEN [i \in 1..Len(d) |-> IF d[i].k = key THEN [k |-> key, v |-> val] ELSE d[i]]
    ELSE Append(d, [k |-> key, v |-> val])

(* ----------------------------- requests ------------------------------- *)
\* op: the endpoint; ok: request.json() succeeds; body: the parsed JSON
\* object; hasq/q: the `account` query parameter; at: for a drain, how many
\* accepted submits and how many drains had completed when it was received;
\* seq: for a report, its place in the order of arrival where that is noted
\* (of two reports, the one with the smaller seq was received first).
Stamp(s, d) == [subs |-> s, drains |-> d]

Req(op, ok, body, hasq, q) ==
  [op |-> op, ok |-> ok, body |-> body, hasq |-> hasq, q |-> q,
   at |-> Stamp(0, 0), seq |-> 0]

P1 == [balance |-> 100, equity |-> 5]
P2 == [balance |-> 200]
P3 == [balance |-> 100, status |-> "live"]
\* a report with an embedded trade sub-object
P4 == [balance |-> 100, trade |-> [ticket |-> 1, profit |-> 5]]

Report(a, p) == Req("report", TRUE, Spread([account |-> a], p), FALSE, "")

\* well-formed reports
GoodReports ==
  { Report(JStr("A1"), P1), Report(JStr("A1"), P2), Report(JStr("A1"), P3),
    Report(JNum("7"), P2), Report(JStr(""), P2) }

\* a report that carries a trade
TradeReports == { Report(JStr("A1"), P4) }

\* a body without `account`, and a body that is not JSON
BadReports ==
  { Req("report", TRUE, P2, FALSE, ""), Req("report", FALSE, EmptyDict, FALSE, "") }

Query(q) == Req("query", TRUE, EmptyDict, TRUE, q)

\* a lookup of a possibly known id, and the aggregate view
GoodQueries == { Query("A1"), Req("query", TRUE, EmptyDict, FALSE, "") }

\* a lookup of an id never reported, and an empty account parameter
OtherQueries == { Query("ZZ"), Query("") }

Submit(b) == Req("submit", TRUE, b, FALSE, "")

GoodSubmits ==
  { Submit([account |-> JStr("A1"), action |-> "buy"]),
    Submit([account |-> JNum("7"), action |-> "buy"]),
    Submit([account |-> JStr("A2"), action |-> "sell", id |-> "X",
            status |-> "done", executed |-> TRUE, executed_at |-> "T0"]) }

\* empty required fields, missing required fields, and a body that is not JSON
BadSubmits ==
  { Submit([account |-> JStr(""), action |-> "buy"]),
    Submit([account |-> JStr("A1"), action |-> ""]),
    Submit([account |-> JStr("A1")]),
    Submit([action |-> "buy"]),
    Submit(EmptyDict),
    Req("submit", FALSE, EmptyDict, FALSE, "") }

\* `account: str` is a required query parameter: the handler runs only with one
Drain(q) == Req("drain", TRUE, EmptyDict, TRUE, q)

GoodDrains == { Drain("A1"), Drain("A2") }

\* an account no command can equal, and the empty account
BadDrains == { Drain("7"), Drain("") }

(* ----------------------------- responses ------------------------------ *)
\* `raise HTTPException(status_code=s, detail=d)`; str(e) is "<status>: <detail>"
HTTPException(s, d) ==
  [status |-> s, detail |-> d, str |-> ToString(s) \o ": " \o d]

\* request.json() failing raises a decoding error inside the try block
JSONDecodeError == [status |-> 0, detail |-> "", str |-> "JSONDecodeError"]

\* `except Exception as e: raise HTTPException(status_code=500, detail=str(e))`
\* around every handler body: it catches the handler's own HTTPException too.
ExceptException(e) == HTTPException(500, e.str)

Response(req, status, detail, body) ==
  [req |-> req, status |-> status, detail |-> detail, body |-> body]

Failure(req, e) == Response(req, e.status, e.detail, EmptyDict)

NoResponse == Response(Req("none", TRUE, EmptyDict, FALSE, ""), 0, "", EmptyDict)

RemoveAt(s, i) == SubSeq(s, 1, i - 1) \o SubSeq(s, i + 1, Len(s))

(* ------------------------------- clock -------------------------------- *)
\* time passes: by a second, or by about the online threshold
Seconds == {1, ONLINE_THRESHOLD - 1, ONLINE_THRESHOLD + 1}

Tick(steps) ==
  /\ budget > 0
  /\ \E d \in steps : now' = now + d
  /\ budget' = budget - 1
  /\ UNCHANGED <<store, inflight, resp, logs>>

(* ------------------------- POST /api/mt5 ------------------------------ *)
\* a POST /api/mt5 request is received: its handler starts and suspends in
\* `await request.json()`
ArriveReport(reqs) ==
  /\ budget > 0
  /\ \E r \in reqs : inflight' = Append(inflight, r)
  /\ budget' = budget - 1
  /\ UNCHANGED <<store, now, resp, logs>>

Max(S) == CHOOSE x \in S : \A y \in S : y <= x

\* the place in the order of arrival given to the next report: after every
\* report still in flight and every report already stored
NextSeq ==
  1 + Max({0} \cup {inflight[i].seq : i \in 1..Len(inflight)}
              \cup {reported[n].seq : n \in 1..Len(reported)})

\* the same, with the order of arrival noted in the request
ArriveInOrder(reqs) ==
  /\ budget > 0
  /\ \E r \in reqs : inflight' = Append(inflight, [r EXCEPT !.seq = NextSeq])
  /\ budget' = budget - 1
  /\ UNCHANGED <<store, now, resp, logs>>

\* the record stored for a body: {**data, "last_update":..., "server_timestamp":...}
AccountRecord(data, t) ==
  Spread(data, [last_update |-> IsoFormat(t), server_timestamp |-> t])

\* mutant: the new fields are merged into the record already stored
StoreRecord_Merge(acc, account_id, data, t) ==
  Spread(acc, [k \in {account_id} |->
                 Spread(IF account_id \in DOMAIN acc THEN acc[account_id] ELSE EmptyDict,
                        AccountRecord(data, t))])

\* mutant: the store is replaced by one that holds the new record only
StoreRecord_Alone(acc, account_id, data, t) ==
  [k \in {account_id} |-> AccountRecord(data, t)]

\* trading_data["accounts"][account_id] = {...}
StoreRecord(acc, account_id, data, t) ==
  Spread(acc, [k \in {account_id} |-> AccountRecord(data, t)])

receive_mt5_data(i) ==
  LET req  == inflight[i]
      data == req.body
  IN
  /\ req.op = "report"
  /\ inflight' = RemoveAt(inflight, i)
  /\ IF ~req.ok THEN
       /\ resp' = Failure(req, ExceptException(JSONDecodeError))
       /\ UNCHANGED <<accounts, heartbeats, reported>>
     ELSE IF "account" \notin DOMAIN data THEN
       /\ resp' = Failure(req, ExceptException(HTTPException(400, "Missing 'account' field")))
       /\ UNCHANGED <<accounts, heartbeats, reported>>
     ELSE
       LET account_id == PyStr(data["account"]) IN
       /\ accounts' = StoreRecord(accounts, account_id, data, now)
       /\ heartbeats' = DictSet(heartbeats, account_id, now)
       /\ resp' = Response(req, 200, "success",
                           [account |-> account_id, received_at |-> IsoFormat(now)])
       /\ reported' = Append(reported, [body |-> data, at |-> now, seq |-> req.seq])
  /\ UNCHANGED <<trades, commands, now, submitted, drainLog, budget>>

(* -------------------------- GET /api/mt5 ------------------------------ *)
\* mutant: the threshold itself still counts as online
is_online_Inclusive(t, heartbeat) == (t - heartbeat) <= ONLINE_THRESHOLD

\* `(datetime.now().timestamp() - heartbeat) < 300`
is_online(t, heartbeat) == (t - heartbeat) < ONLINE_THRESHOLD

\* trading_data["accounts"].get(acc_id, {})
AccountGet(acc, acc_id) == IF acc_id \in DOMAIN acc THEN acc[acc_id] ELSE EmptyDict

\* {"account": acc_id, **account_data, "status": label}
ViewEntry(acc, acc_id, label) ==
  Spread(Spread([account |-> JStr(acc_id)], AccountGet(acc, acc_id)), [status |-> label])

\* the loop over trading_data["heartbeats"].items(): the entries appended to
\* one list (online when want = TRUE, offline when want = FALSE), in order
RECURSIVE Partition(_, _, _, _)
Partition(hb, acc, t, want) ==
  IF hb = <<>> THEN <<>>
  ELSE LET item == Head(hb)
           rest == Partition(Tail(hb), acc, t, want)
       IN IF is_online(t, item.v) = want
            THEN <<ViewEntry(acc, item.k, IF want THEN "online" ELSE "offline")>> \o rest
            ELSE rest

\* the aggregate view returned when no account is asked for
AggregateView(hb, acc, t) ==
  [online  |-> Partition(hb, acc, t, TRUE),
   offline |-> Partition(hb, acc, t, FALSE),
   total   |-> Cardinality(DOMAIN acc)]

\* the outcome of the handler body for query parameter (hasq, q)
QueryState(hasq, q, hb, acc, t) ==
  IF hasq /\ q # "" THEN
    IF q \in DOMAIN acc
      THEN [status |-> 200, detail |-> "record", body |-> acc[q]]
      ELSE LET e == ExceptException(HTTPException(404, "Account " \o q \o " not found"))
           IN [status |-> e.status, detail |-> e.detail, body |-> EmptyDict]
  ELSE [status |-> 200, detail |-> "aggregate", body |-> AggregateView(hb, acc, t)]

get_mt5_data(req) ==
  LET out == QueryState(req.hasq, req.q, heartbeats, accounts, now) IN
  /\ budget > 0
  /\ budget' = budget - 1
  /\ resp' = Response(req, out.status, out.detail, out.body)
  /\ UNCHANGED <<store, now, inflight, logs>>

(* ------------------------ POST /api/command --------------------------- *)
required_fields == <<"account", "action">>

\* mutant: only `account` is required
MissingField_AccountOnly(data) == IF "account" \in DOMAIN data THEN "" ELSE "account"

\* the first required field the body lacks, "" when it has them all
MissingField(data) ==
  IF \A n \in 1..Len(required_fields) : required_fields[n] \in DOMAIN data THEN ""
  ELSE required_fields[CHOOSE n \in 1..Len(required_fields) :
         /\ required_fields[n] \notin DOMAIN data
         /\ \A m \in 1..(n - 1) : required_fields[m] \in DOMAIN data]

\* hashlib.md5(s.encode()).hexdigest()[:8]: a digest, taken to be
\* collision-free on the strings hashed here
MD5_8(s) == "md5(" \o s \o ")"

\* f"{data['account']}{datetime.now()}" hashed
CommandId(data, t) == MD5_8(PyStr(data["account"]) \o IsoFormat(t))

\* {"id": cmd_id, **data, "created_at": ..., "status": "pending", "executed": False}
Command(data, t) ==
  Spread(Spread([id |-> CommandId(data, t)], data),
         [created_at |-> IsoFormat(t), status |-> "pending", executed |-> FALSE])

\* a queue entry: the command dict d and the identity oid of the dict object
Entry(oid, d) == [oid |-> oid, d |-> d]

\* mutant: the capacity check is dropped
KeepLast_Never(q) == q

\* mutant: pop() for pop(0), the newest entry goes instead of the oldest
KeepLast_PopNewest(q) == IF Len(q) > MAX_COMMANDS THEN SubSeq(q, 1, Len(q) - 1) ELSE q

\* `if len(commands) > 50: commands.pop(0)` after the append
KeepLast(q) == IF Len(q) > MAX_COMMANDS THEN Tail(q) ELSE q

send_command(req) ==
  LET data == req.body IN
  /\ budget > 0
  /\ budget' = budget - 1
  /\ IF ~req.ok THEN
       /\ resp' = Failure(req, ExceptException(JSONDecodeError))
       /\ UNCHANGED <<commands, submitted>>
     ELSE IF MissingField(data) # "" THEN
       /\ resp' = Failure(req, ExceptException(
                    HTTPException(400, "Missing '" \o MissingField(data) \o "' field")))
       /\ UNCHANGED <<commands, submitted>>
     ELSE
       LET command == Entry(Len(submitted) + 1, Command(data, now)) IN
       /\ commands' = KeepLast(Append(commands, command))
       /\ submitted' = Append(submitted, command)
       /\ resp' = Response(req, 200, "queued", [command_id |-> CommandId(data, now)])
  /\ UNCHANGED <<accounts, heartbeats, trades, now, inflight, reported, drainLog>>

(* ------------------------ GET /api/commands --------------------------- *)
\* a GET /api/commands request is received
ArriveDrain(reqs) ==
  /\ budget > 0
  /\ \E r \in reqs :
       inflight' = Append(inflight,
                     [r EXCEPT !.at = Stamp(Len(submitted), Len(drainLog))])
  /\ budget' = budget - 1
  /\ UNCHANGED <<store, now, resp, logs>>

\* mutant: the executed flag is not consulted
IsPendingFor_IgnoreExecuted(cmd, account) == EqStr(cmd["account"], account)

\* mutant: the account is not consulted
IsPendingFor_AnyAccount(cmd, account) == ~cmd["executed"]

\* `cmd["account"] == account and not cmd["executed"]`
IsPendingFor(cmd, account) == EqStr(cmd["account"], account) /\ ~cmd["executed"]

\* cmd["executed"] = True; cmd["executed_at"] = datetime.now().isoformat()
MarkExecuted(cmd, t) == Spread(cmd, [executed |-> TRUE, executed_at |-> IsoFormat(t)])

\* mutant: the marking loop marks copies, the queued dicts stay as they were
MarkPending_Copies(q, account, t) == q

\* the queue after the marking loop: the selected dicts are marked in place
MarkPending(q, account, t) ==
  [n \in 1..Len(q) |->
     IF IsPendingFor(q[n].d, account) THEN Entry(q[n].oid, MarkExecuted(q[n].d, t))
     ELSE q[n]]

\* pending_commands as the caller receives it: the selected entries, in queue
\* order, as they are after the marking loop
RECURSIVE PendingCommands(_, _, _)
PendingCommands(q, account, t) ==
  IF q = <<>> THEN <<>>
  ELSE IF IsPendingFor(Head(q).d, account)
    THEN <<Entry(Head(q).oid, MarkExecuted(Head(q).d, t))>>
           \o PendingCommands(Tail(q), account, t)
    ELSE PendingCommands(Tail(q), account, t)

get_commands(i) ==
  LET req     == inflight[i]
      account == req.q
  IN
  /\ req.op = "drain"
  /\ inflight' = RemoveAt(inflight, i)
  /\ IF account = "" THEN
       /\ resp' = Failure(req, ExceptException(
                    HTTPException(400, "Missing 'account' parameter")))
       /\ UNCHANGED <<commands, drainLog>>
     ELSE
       LET pending_commands == PendingCommands(commands, account, now) IN
       /\ commands' = MarkPending(commands, account, now)
       /\ resp' = Response(req, 200, "commands",
                           [account |-> account,
                            pending_count |-> Len(pending_commands),
                            commands |-> pending_commands])
       /\ drainLog' = Append(drainLog,
                        [account |-> account, commands |-> pending_commands,
                         at |-> req.at,
                         done |-> Stamp(Len(submitted), Len(drainLog))])
  /\ UNCHANGED <<accounts, heartbeats, trades, now, reported, submitted, budget>>

(* ---------------------------- behaviours ------------------------------ *)
\* the store as the module leaves it when it is loaded
InitStore ==
  /\ accounts = EmptyDict
  /\ heartbeats = <<>>
  /\ trades = <<>>
  /\ commands = <<>>
  /\ reported = <<>>
  /\ submitted = <<>>
  /\ drainLog = <<>>
  /\ now = 0
  /\ inflight = <<>>
  /\ resp = NoResponse

\* the queue after PreFill accepted commands, one per second, alternately for
\* accounts A1 and A2, none of them polled yet
PreFilled ==
  [n \in 1..PreFill |->
     Entry(n, Command([account |-> JStr(IF n % 2 = 1 THEN "A1" ELSE "A2"),
                       action |-> "buy"], n))]

InitFilled ==
  /\ accounts = EmptyDict
  /\ heartbeats = <<>>
  /\ trades = <<>>
  /\ commands = PreFilled
  /\ reported = <<>>
  /\ submitted = PreFilled
  /\ drainLog = <<>>
  /\ now = PreFill
  /\ inflight = <<>>
  /\ resp = NoResponse

\* every endpoint, every kind of request
Init ==
  /\ InitStore
  /\ budget = FullEvents

Next ==
  \/ Tick({1})
  \/ ArriveReport(GoodReports \cup TradeReports \cup BadReports)
  \/ \E i \in 1..Len(inflight) : receive_mt5_data(i)
  \/ \E r \in GoodQueries \cup OtherQueries : get_mt5_data(r)
  \/ \E r \in GoodSubmits \cup BadSubmits : send_command(r)
  \/ ArriveDrain(GoodDrains \cup BadDrains)
  \/ \E i \in 1..Len(inflight) : get_commands(i)

Spec == Init /\ [][Next]_vars

\* the account store: well-formed reports, queries and the clock
InitAccounts ==
  /\ InitStore
  /\ budget = StoreEvents

NextAccounts ==
  \/ Tick(Seconds)
  \/ ArriveReport(GoodReports)
  \/ \E i \in 1..Len(inflight) : receive_mt5_data(i)
  \/ \E r \in GoodQueries : get_mt5_data(r)

SpecAccounts == InitAccounts /\ [][NextAccounts]_vars

\* the command queue: well-formed submits and drains and the clock
InitQueue ==
  /\ InitStore
  /\ budget = QueueEvents

NextQueue ==
  \/ Tick({1})
  \/ \E r \in GoodSubmits : send_command(r)
  \/ ArriveDrain(GoodDrains)
  \/ \E i \in 1..Len(inflight) : get_commands(i)

SpecQueue == InitQueue /\ [][NextQueue]_vars

\* the command queue from a state close to its capacity
InitEvict ==
  /\ InitFilled
  /\ budget = EvictEvents

NextEvict ==
  \/ \E r \in GoodSubmits : send_command(r)
  \/ ArriveDrain(GoodDrains)
  \/ \E i \in 1..Len(inflight) : get_commands(i)

SpecEvict == InitEvict /\ [][NextEvict]_vars

\* the account store with the order of arrival of the reports noted
InitOrder ==
  /\ InitStore
  /\ budget = OrderEvents

NextOrder ==
  \/ Tick({1})
  \/ ArriveInOrder(GoodReports)
  \/ \E i \in 1..Len(inflight) : receive_mt5_data(i)

SpecOrder == InitOrder /\ [][NextOrder]_vars

(* ------------------------- shared vocabulary -------------------------- *)
\* the object identities of a sequence of queue entries
Oids(es) == {es[n].oid : n \in 1..Len(es)}

\* a command dict is Pending until a poll has flagged it executed
Pending(cmd) == cmd["executed"] = FALSE
Delivered(cmd) == cmd["executed"] = TRUE

\* the command targets account a
Targets(cmd, a) == cmd["account"] = JStr(a)

\* the accepted submits numbered lo+1 .. hi
SubmitsBetween(lo, hi) == {submitted[k] : k \in (lo + 1)..hi}

(* ------------------------------- C1 ----------------------------------- *)
\* C1: at-most-once delivery.  No queue entry is returned by two polls (nor
\* twice by one), and of two polls of the same account with no accepted
\* submit for that account between them, the second returns nothing.
C1_AtMostOnce ==
  /\ \A i \in 1..Len(drainLog) :
       Cardinality(Oids(drainLog[i].commands)) = Len(drainLog[i].commands)
  /\ \A i, j \in 1..Len(drainLog) :
       i < j => Oids(drainLog[i].commands) \cap Oids(drainLog[j].commands) = {}
  /\ \A i, j \in 1..Len(drainLog) :
       ( /\ i < j
         /\ drainLog[i].account = drainLog[j].account
         /\ \A c \in SubmitsBetween(drainLog[i].done.subs, drainLog[j].done.subs) :
              ~Targets(c.d, drainLog[j].account) )
       => drainLog[j].commands = <<>>

\* two polls of one account in succession, the first of which returned commands
C1_Witness ==
  \E i, j \in 1..Len(drainLog) :
    /\ j = i + 1
    /\ drainLog[i].account = drainLog[j].account
    /\ drainLog[i].done.subs = drainLog[j].done.subs
    /\ Len(drainLog[i].commands) >= 2
    /\ drainLog[j].commands = <<>>

(* ------------------------------- C2 ----------------------------------- *)
\* the entries pending for account a when st.subs submits had been accepted
\* and st.drains polls had completed
PendingAt(a, st) ==
  { c.oid : c \in { e \in SubmitsBetween(0, st.subs) : Targets(e.d, a) } }
    \ UNION { Oids(drainLog[m].commands) : m \in 1..st.drains }

\* polls i < j of the log overlap: j was received before i was handled
Overlap(i, j) == drainLog[j].at.drains < i

\* the earlier of the two arrivals
FirstArrival(i, j) ==
  IF drainLog[i].at.subs + drainLog[i].at.drains
       <= drainLog[j].at.subs + drainLog[j].at.drains
    THEN drainLog[i].at ELSE drainLog[j].at

\* between the first arrival and the end of poll j nothing else touched the
\* queue: no submit was accepted and no third poll ran
Undisturbed(i, j) ==
  /\ FirstArrival(i, j).subs = drainLog[j].done.subs
  /\ FirstArrival(i, j).drains = i - 1
  /\ j = i + 1

\* C2: two overlapping polls of one account never return the same entry, and
\* when nothing else touches the queue meanwhile they return, between them,
\* exactly what was pending for the account when they started.
C2_ConcurrentDrains ==
  \A i, j \in 1..Len(drainLog) :
    (i < j /\ drainLog[i].account = drainLog[j].account /\ Overlap(i, j)) =>
      /\ Oids(drainLog[i].commands) \cap Oids(drainLog[j].commands) = {}
      /\ Undisturbed(i, j) =>
           Oids(drainLog[i].commands) \cup Oids(drainLog[j].commands)
             = PendingAt(drainLog[i].account, FirstArrival(i, j))

\* two overlapping undisturbed polls of an account with pending commands
C2_Witness ==
  \E i, j \in 1..Len(drainLog) :
    /\ i < j /\ drainLog[i].account = drainLog[j].account
    /\ Overlap(i, j) /\ Undisturbed(i, j)
    /\ PendingAt(drainLog[i].account, FirstArrival(i, j)) # {}

(* ------------------------------- C3 ----------------------------------- *)
\* C3: the queue never holds more than MAX_COMMANDS entries, whatever their
\* accounts and delivery states.
C3_QueueBounded == Len(commands) <= MAX_COMMANDS

\* a full queue that has evicted, holding both states and several accounts
C3_Witness ==
  /\ Len(commands) = MAX_COMMANDS
  /\ Len(submitted) > MAX_COMMANDS
  /\ \E m, n \in 1..Len(commands) :
       /\ Pending(commands[m].d) /\ Delivered(commands[n].d)
       /\ commands[m].d["account"] # commands[n].d["account"]

(* ------------------------------- C4 ----------------------------------- *)
\* what a queue entry was when it was accepted: its identity and every field
\* but the two that a poll writes
AsSubmitted(e) ==
  [oid |-> e.oid,
   d |-> [f \in (DOMAIN e.d) \ {"executed", "executed_at"} |-> e.d[f]]]

\* C4: after n accepted submits the queue is the last min(n, MAX_COMMANDS)
\* accepted commands in arrival order, whatever their accounts and delivery
\* states; polls in between add, remove and reorder nothing.
C4_OldestFirst ==
  LET n    == Len(submitted)
      size == IF n < MAX_COMMANDS THEN n ELSE MAX_COMMANDS
  IN /\ Len(commands) = size
     /\ \A k \in 1..size :
          AsSubmitted(commands[k]) = AsSubmitted(submitted[n - size + k])

\* the queue has evicted, and a poll has delivered entries on the way
C4_Witness ==
  /\ Len(submitted) > MAX_COMMANDS
  /\ Len(commands) = MAX_COMMANDS
  /\ \E i \in 1..Len(drainLog) : drainLog[i].commands # <<>>
  /\ \E k \in 1..Len(commands) : Delivered(commands[k].d)
  /\ \E k \in 1..Len(commands) : Pending(commands[k].d)

(* ------------------------------- C5 ----------------------------------- *)
\* the entries of queue q that target a and are Pending, in queue order
PendingOf(q, a) ==
  LET Wanted(e) == Targets(e.d, a) /\ Pending(e.d) IN SelectSeq(q, Wanted)

\* a poll has just completed: the log has one more entry
Polled == Len(drainLog') = Len(drainLog) + 1

LastPoll == drainLog'[Len(drainLog')]

\* C5: a poll of account a returns exactly the entries that target a and
\* are Pending, in creation order; the entries it returns, and the same
\* entries in the queue, are flagged executed and stamped with the poll's time.
C5_DrainExact ==
  [][ Polled =>
        LET a      == LastPoll.account
            expect == PendingOf(commands, a)
            got    == LastPoll.commands
        IN /\ Len(got) = Len(expect)
           /\ \A n \in 1..Len(got) :
                /\ AsSubmitted(got[n]) = AsSubmitted(expect[n])
                /\ Delivered(got[n].d)
                /\ "executed_at" \in DOMAIN got[n].d
                /\ got[n].d["executed_at"] = IsoFormat(now)
                /\ \E k \in 1..Len(commands') : commands'[k] = got[n]
           /\ resp'.body["commands"] = got
           /\ resp'.body["pending_count"] = Len(got)
    ]_vars

\* a poll returned commands out of a queue that also held commands of the
\* same account delivered by an earlier poll, and commands of another account
C5_Witness ==
  \E i \in 1..Len(drainLog) :
    /\ drainLog[i].commands # <<>>
    /\ \E j \in 1..(i - 1) :
         /\ Len(drainLog[j].commands) >= 2
         /\ drainLog[j].account = drainLog[i].account
         /\ \E k \in 1..Len(commands) : commands[k].oid \in Oids(drainLog[j].commands)
    /\ \E k \in 1..Len(commands) :
         /\ ~Targets(commands[k].d, drainLog[i].account)
         /\ commands[k].oid < drainLog[i].commands[1].oid

(* ------------------------------- C6 ----------------------------------- *)
\* the account ids of the accepted reports, as the store keys them
ReportedIds == {PyStr(reported[n].body["account"]) : n \in 1..Len(reported)}

\* the last accepted report for id
LastReport(id) ==
  reported[CHOOSE n \in 1..Len(reported) :
             /\ PyStr(reported[n].body["account"]) = id
             /\ \A m \in (n + 1)..Len(reported) :
                  PyStr(reported[m].body["account"]) # id]

ServerFields == {"last_update", "server_timestamp"}

\* what the lookup of one id answers in the current state
Lookup(id) == QueryState(TRUE, id, heartbeats, accounts, now)

\* C6: last write wins, without merge.  For every reported id (ids are
\* non-empty: a lookup of the empty id is no lookup), the lookup returns the
\* fields of the last accepted report for it, each with the reported value,
\* and the two server timestamps of that report, and no other field; the
\* store holds one record per reported id and no other record.
C6_LastWriteWins ==
  /\ DOMAIN accounts = ReportedIds
  /\ \A id \in ReportedIds \ {""} :
       LET last == LastReport(id)
           got  == Lookup(id)
       IN /\ got.status = 200
          /\ DOMAIN got.body = (DOMAIN last.body) \cup ServerFields
          /\ \A f \in (DOMAIN last.body) \ ServerFields : got.body[f] = last.body[f]
          /\ got.body["server_timestamp"] = last.at
          /\ got.body["last_update"] = IsoFormat(last.at)

\* an id reported twice, the first report carrying a field the second lacks
C6_Witness ==
  \E m, n \in 1..Len(reported) :
    /\ m < n
    /\ reported[m].body["account"] = reported[n].body["account"]
    /\ PyStr(reported[n].body["account"]) # ""
    /\ (DOMAIN reported[m].body) \ (DOMAIN reported[n].body) # {}
    /\ reported[m].at < reported[n].at

(* ------------------------------- C7 ----------------------------------- *)
\* the aggregate view of the current state
View == QueryState(FALSE, "", heartbeats, accounts, now).body

\* the ids an aggregate list names
Listed(list) == {PyStr(list[n]["account"]) : n \in 1..Len(list)}

\* the time of the last accepted report for a reported id
LastUpdate(id) == LastReport(id).at

\* C7: the aggregate view lists an account as online exactly when
\* now - lastUpdate < ONLINE_THRESHOLD: one second inside the threshold is
\* online, the threshold itself and anything beyond are offline, and an id
\* never reported is not listed as online.
C7_LivenessBoundary ==
  LET online  == Listed(View.online)
      offline == Listed(View.offline)
  IN /\ \A id \in ReportedIds :
          /\ id \in online <=> now - LastUpdate(id) < ONLINE_THRESHOLD
          /\ id \in offline <=> now - LastUpdate(id) >= ONLINE_THRESHOLD
          /\ LastUpdate(id) = now - ONLINE_THRESHOLD + 1 => id \in online
          /\ LastUpdate(id) = now - ONLINE_THRESHOLD => id \in offline
          /\ LastUpdate(id) = now - ONLINE_THRESHOLD - 1 => id \in offline
     /\ online \subseteq ReportedIds

\* one account one second inside the threshold, another exactly at it
C7_Witness ==
  \E a, b \in ReportedIds :
    /\ LastUpdate(a) = now - ONLINE_THRESHOLD + 1
    /\ LastUpdate(b) = now - ONLINE_THRESHOLD
    /\ a \in Listed(View.online)
    /\ b \in Listed(View.offline)

(* ------------------------------- C8 ----------------------------------- *)
\* both lists of aggregate view v, online first
AllListed(v) == v.online \o v.offline

\* the partition of view v is sound: every known account is listed once,
\* every entry is a known account, labelled by the list it is in, and the
\* total is the number of entries; heartbeats and records have the same ids
PartitionSound(v) ==
  LET all == AllListed(v) IN
  /\ Keys(heartbeats) = DOMAIN accounts
  /\ \A id \in DOMAIN accounts :
       Cardinality({n \in 1..Len(all) : PyStr(all[n]["account"]) = id}) = 1
  /\ \A n \in 1..Len(all) : PyStr(all[n]["account"]) \in DOMAIN accounts
  /\ \A n \in 1..Len(v.online) : v.online[n]["status"] = "online"
  /\ \A n \in 1..Len(v.offline) : v.offline[n]["status"] = "offline"
  /\ v.total = Len(v.online) + Len(v.offline)

\* every entry of view v has the fields of its account's record, with the
\* record's values but for the fields in `except`
Carries(v, except) ==
  LET all == AllListed(v) IN
  \A n \in 1..Len(all) :
    LET rec == accounts[PyStr(all[n]["account"])] IN
    /\ DOMAIN all[n] = (DOMAIN rec) \cup {"status"}
    /\ \A f \in (DOMAIN rec) \ except : all[n][f] = rec[f]

\* C8 as stated: the partition is sound and every entry carries its
\* account's stored record, all of its fields.
C8_AsStated == LET v == View IN PartitionSound(v) /\ Carries(v, {})

\* C8 (amended): the partition is sound and every entry carries its account's
\* stored record, but for `status`, which holds the label of the partition
\* (online or offline) in place of a reported field of that name.
C8_AggregateView == LET v == View IN PartitionSound(v) /\ Carries(v, {"status"})

\* a view with an online and an offline account, one of them reported twice
C8_Witness ==
  /\ View.online # <<>>
  /\ View.offline # <<>>
  /\ \E m, n \in 1..Len(reported) :
       m < n /\ reported[m].body["account"] = reported[n].body["account"]

(* ------------------------------- C9 ----------------------------------- *)
\* a handler ran in this step: a request left the requests in flight, or was
\* taken and handled at once
HandlerRan ==
  \/ Len(inflight') < Len(inflight)
  \/ inflight' = inflight /\ budget' < budget /\ now' = now

\* the request lacks a required field (for a poll: its account is empty)
LacksField(req) ==
  \/ req.op = "report" /\ req.ok /\ "account" \notin DOMAIN req.body
  \/ req.op = "submit" /\ req.ok /\ {"account", "action"} \ (DOMAIN req.body) # {}
  \/ req.op = "drain" /\ req.q = ""

\* the request looks up an id that acc has no record of
LookupMiss(req, acc) ==
  req.op = "query" /\ req.hasq /\ req.q # "" /\ req.q \notin DOMAIN acc

\* C9: a request rejected for a missing required field, and a lookup of an
\* unknown id, leave accounts, heartbeats, trades and commands as they were.
C9_RejectionsKeepState ==
  [][ (HandlerRan /\ (LacksField(resp'.req) \/ LookupMiss(resp'.req, accounts)))
        => /\ UNCHANGED store
           /\ resp'.status # 200
    ]_vars

\* a request was rejected while the store held a record or a command
C9_Witness ==
  /\ LacksField(resp.req) \/ LookupMiss(resp.req, accounts)
  /\ resp.status # 200
  /\ accounts # EmptyDict \/ commands # <<>>

(* ------------------------------- C10 ---------------------------------- *)
\* C10: the kinds of error are told apart: a request that lacks a required
\* field is answered 400, a lookup of an unknown id 404, and only other
\* failures (here: a body that is not JSON) are answered 500.
C10_ErrorKinds ==
  /\ LacksField(resp.req) => resp.status = 400
  /\ LookupMiss(resp.req, accounts) => resp.status = 404
  /\ resp.status = 500 => ~resp.req.ok

(* ------------------------------- C11 ---------------------------------- *)
\* the request carries a required field whose value is empty
EmptyField(req) ==
  \/ /\ req.op = "report" /\ req.ok /\ "account" \in DOMAIN req.body
     /\ PyStr(req.body["account"]) = ""
  \/ /\ req.op = "submit" /\ req.ok /\ "account" \in DOMAIN req.body
     /\ req.body["account"] = JStr("")
  \/ /\ req.op = "submit" /\ req.ok /\ "action" \in DOMAIN req.body
     /\ req.body["action"] = ""
  \/ req.op = "drain" /\ req.q = ""

\* C11: an empty required field is rejected like a missing one: a report
\* with an empty account id, a submit with an empty account or an empty
\* action and a poll with an empty account are refused, no account record is
\* kept under the empty id and no command with an empty account or an empty
\* action is queued.
C11_EmptyRejected ==
  /\ EmptyField(resp.req) => resp.status # 200
  /\ "" \notin DOMAIN accounts
  /\ \A n \in 1..Len(commands) :
       /\ commands[n].d["account"] # JStr("")
       /\ commands[n].d["action"] # ""

(* ------------------------------- C12 ---------------------------------- *)
\* C12: command ids are unique: no two entries of the queue carry the same
\* id, also when two commands for one account are accepted at the same clock
\* reading (a colliding id would have to be replaced by a fresh one).
C12_UniqueIds ==
  \A m, n \in 1..Len(commands) :
    m # n => commands[m].d["id"] # commands[n].d["id"]

(* ------------------------------- C13 ---------------------------------- *)
\* C13: the command id answered by an accepted submit is the id of the
\* entry it appended, and the id under which a poll later returns that
\* entry, whatever further fields the body carries; every command is
\* Pending when it is queued.
C13_ReturnedId ==
  /\ (resp.req.op = "submit" /\ resp.status = 200) =>
       resp.body.command_id = submitted[Len(submitted)].d["id"]
  /\ \A i \in 1..Len(drainLog) : \A n \in 1..Len(drainLog[i].commands) :
       LET got == drainLog[i].commands[n] IN
       got.d["id"] = submitted[got.oid].d["id"]
  /\ \A k \in 1..Len(submitted) :
       Pending(submitted[k].d) /\ submitted[k].d["status"] = "pending"

(* ------------------------------- C14 ---------------------------------- *)
\* the capacity the specification gives the trade log; server.py names none
MAX_TRADES == 100

\* the accepted reports that carried a trade, in order
TradeEvents ==
  LET HasTrade(e) == "trade" \in DOMAIN e.body IN SelectSeq(reported, HasTrade)

\* C14: every accepted report with an embedded trade adds one event to the
\* trade log, which holds the last MAX_TRADES of these events, in order.
C14_TradeLog ==
  LET evs  == TradeEvents
      kept == IF Len(evs) > MAX_TRADES THEN MAX_TRADES ELSE Len(evs) IN
  /\ Len(trades) = kept
  /\ \A k \in 1..Len(trades) :
       trades[k] = evs[Len(evs) - kept + k].body["trade"]

(* ------------------------------- C15 ---------------------------------- *)
\* a report for id has been received and its handler has not yet written
ReportInFlight(id) ==
  \E i \in 1..Len(inflight) :
    /\ inflight[i].op = "report" /\ inflight[i].ok
    /\ "account" \in DOMAIN inflight[i].body
    /\ PyStr(inflight[i].body["account"]) = id

\* of the accepted reports for id, the one that was received last
LastArrived(id) ==
  reported[CHOOSE n \in 1..Len(reported) :
             /\ PyStr(reported[n].body["account"]) = id
             /\ \A m \in 1..Len(reported) :
                  PyStr(reported[m].body["account"]) = id
                    => reported[n].seq >= reported[m].seq]

\* C15: reports for one account id take effect in the order in which they
\* were received, also when their handlers interleave: once every report
\* received for an id has been handled, the record stored for the id is the
\* one of the report that was received last.
C15_ArrivalOrder ==
  \A id \in ReportedIds :
    ~ReportInFlight(id) =>
      LET last == LastArrived(id) IN
      /\ DOMAIN accounts[id] = (DOMAIN last.body) \cup ServerFields
      /\ \A f \in (DOMAIN last.body) \ ServerFields : accounts[id][f] = last.body[f]

(* ------------------------------- C16 ---------------------------------- *)
\* the entry of queue q that is the dict object o
EntryOf(q, o) == q[CHOOSE n \in 1..Len(q) : q[n].oid = o]

\* the command carries a delivery timestamp
HasStamp(cmd) == "executed_at" \in DOMAIN cmd

\* the step appended a command to a full queue and so removed the entry old
Evicted(old) ==
  /\ Len(submitted') = Len(submitted) + 1
  /\ Len(commands) = MAX_COMMANDS
  /\ commands[1].oid = old.oid

\* C16: a command is Pending and then Delivered, and Delivered is final: a
\* Delivered entry never becomes Pending again; an entry carries a delivery
\* timestamp exactly when it is Delivered, and the timestamp never changes
\* afterwards; a Delivered entry stays in the queue until the capacity
\* eviction removes it.  A Pending entry changes only by being delivered.
C16_DeliveryStates ==
  [][ /\ \A n \in 1..Len(commands') :
           HasStamp(commands'[n].d) <=> Delivered(commands'[n].d)
      /\ \A o \in Oids(commands) :
           LET old == EntryOf(commands, o) IN
           IF o \in Oids(commands')
             THEN LET new == EntryOf(commands', o) IN
                  IF Delivered(old.d)
                    THEN new = old
                    ELSE \/ new = old
                         \/ Delivered(new.d) /\ AsSubmitted(new) = AsSubmitted(old)
             ELSE Evicted(old)
    ]_vars

(* ------------------------------- C17 ---------------------------------- *)
\* the command was submitted for account a (an account id is a text, as
\* receive_mt5_data and the query parameter make it one)
SubmittedFor(cmd, a) == PyStr(cmd["account"]) = a

\* poll i is the first poll of account a completed after the k-th accepted
\* submit
FirstDrainAfter(i, k, a) ==
  /\ drainLog[i].account = a
  /\ drainLog[i].done.subs >= k
  /\ \A j \in 1..(i - 1) :
       drainLog[j].account = a => drainLog[j].done.subs < k

\* C17: a command accepted for account a is returned by the first poll of a
\* that follows it, provided fewer than MAX_COMMANDS further commands were
\* accepted in between; so a command is lost undelivered by eviction only.
C17_DeliveredUnlessEvicted ==
  \A k \in 1..Len(submitted) : \A i \in 1..Len(drainLog) :
    LET a == drainLog[i].account IN
    ( /\ SubmittedFor(submitted[k].d, a)
      /\ FirstDrainAfter(i, k, a)
      /\ drainLog[i].done.subs - k < MAX_COMMANDS )
    => k \in Oids(drainLog[i].commands)

(* ------------------------------- C18 ---------------------------------- *)
\* the items of the other ids in an ordered dict
OtherItems(d, id) == {d[n] : n \in {m \in 1..Len(d) : d[m].k # id}}

\* the records of the other ids in the account store
OtherRecords(acc, id) == [k \in (DOMAIN acc) \ {id} |-> acc[k]]

\* what a report for id may change: the record and the heartbeat of id
ReportFrame(id) ==
  /\ OtherRecords(accounts', id) = OtherRecords(accounts, id)
  /\ OtherItems(heartbeats', id) = OtherItems(heartbeats, id)
  /\ UNCHANGED <<trades, commands>>

\* what a poll of a may change: executed and executed_at of the entries that
\* target a and were Pending
DrainFrame(a) ==
  /\ UNCHANGED <<accounts, heartbeats, trades>>
  /\ Len(commands') = Len(commands)
  /\ \A n \in 1..Len(commands) :
       \/ commands'[n] = commands[n]
       \/ /\ Targets(commands[n].d, a) /\ Pending(commands[n].d)
          /\ AsSubmitted(commands'[n]) = AsSubmitted(commands[n])

\* C18: what each operation leaves alone.  A report for id changes only the
\* record and the last-seen time of id, no other account and not the queue;
\* a poll of a changes only the delivery state and timestamp of entries that
\* target a and were Pending, no other entry and no account; a query changes
\* nothing; a submit changes no account record and no heartbeat.
C18_Frames ==
  [][ HandlerRan =>
        LET req == resp'.req IN
        /\ req.op = "report" =>
             IF resp'.status = 200
               THEN ReportFrame(PyStr(req.body["account"]))
               ELSE UNCHANGED store
        /\ req.op = "drain" => DrainFrame(req.q)
        /\ req.op = "query" => UNCHANGED store
        /\ req.op = "submit" => UNCHANGED <<accounts, heartbeats, trades>>
    ]_vars

\* a report was stored while the store held another account and a command
C18_Witness ==
  /\ resp.req.op = "report" /\ resp.status = 200
  /\ (DOMAIN accounts) \ {resp.body.account} # {}
  /\ Keys(heartbeats) \ {resp.body.account} # {}
  /\ commands # <<>>

====
